---- MODULE Spec2Model ----
(***************************************************************************)
(* simple_social: a fixed-size worker pool (src/src/lib.rs) that runs the  *)
(* handlers a raw-prefix route table (src/src/server.rs) selects for each  *)
(* accepted connection, driven by the binary's main (src/src/bin/main.rs). *)
(*                                                                         *)
(* Strings are sequences of one-character strings; "CR", "LF" and "NUL"    *)
(* stand for the bytes 13, 10 and 0.  The main (accept) thread and every   *)
(* worker thread are processes; each action is one atomic step of one of   *)
(* them.                                                                   *)
(***************************************************************************)
EXTENDS Naturals, Sequences, FiniteSets, TLC

VARIABLES
    pc,          \* position of the main thread (main -> Server::run -> Drop)
    end_points,  \* Server.end_points: Vec<Handler>
    pool_size,   \* Server.pool_size
    wstate,      \* per worker thread: position in the loop of Worker::new
    wjob,        \* per worker thread: the job it dequeued last
    lock,        \* the workers holding the Mutex around the Receiver (none or one)
    queue,       \* the mpsc channel: messages sent and not yet received
    dropIdx,     \* loop index of the two loops of Drop for ThreadPool
    buffer,      \* the bytes read into `buffer` of Server::run
    res,         \* `res` of the fallback branch of Server::run
    conns,       \* history: one record per accepted connection
    mounted,     \* history: the arguments of the last call of Server::mount
    pool_arg,    \* history: the pool_size argument Server::new was called with
    term_sent,   \* history: Terminate messages sent by Drop for ThreadPool
    term_got,    \* history: per worker thread, Terminate messages received
    err          \* the error (or panic) that ended Server::run

vars == <<pc, end_points, pool_size, wstate, wjob, lock, queue, dropIdx,
          buffer, res, conns, mounted, pool_arg, term_sent, term_got, err>>

-----------------------------------------------------------------------------
\* Bounds of the model.

\* Connections accepted in a run of the pool specification.
MaxConns == 3

\* Largest pool_size argument passed to Server::new.
MaxPoolArg == 2

\* Largest pool_size argument in the pool-size specification.
MaxSizeArg == 3

\* Connections accepted in a run of the pool-size specification.
MaxSizeConns == 1

\* Routes registered before run in the route and mount specifications.
MaxRoutes == 2

\* Connections accepted in a run of the route specification.
MaxRouteConns == 1

-----------------------------------------------------------------------------
\* Program constants.

BUFFER_SIZE == 1024

MIN_POOL_SIZE == 2

STATUS_NOT_FOUND == "HTTP/1.1 404 NOT_FOUND"

NoHandler == "NoHandler"

NoJob == [conn |-> 0, h |-> NoHandler]

NoRes == <<>>

Method == {"Get", "Post", "Delete", "Put"}

\* impl Display for Method
MethodStr(m) ==
    CASE m = "Put"    -> <<"P", "U", "T">>
      [] m = "Get"    -> <<"G", "E", "T">>
      [] m = "Delete" -> <<"D", "E", "L", "E", "T", "E">>
      [] m = "Post"   -> <<"P", "O", "S", "T">>

\* Handler::new / Route::new : the (method, path, handler) triple
Handler(path, method, h) == [method |-> method, path |-> path, handler |-> h]

\* Handler::http_str : format!("{} {} HTTP/1.1\r\n", method, path)
http_str(ep) ==
    MethodStr(ep.method) \o <<" ">> \o ep.path
        \o <<" ", "H", "T", "T", "P", "/", "1", ".", "1", "CR", "LF">>

\* `let mut buffer = [0; 1024]; stream.read(&mut buffer)` : the array after a
\* read that delivered `data` : its first BUFFER_SIZE bytes, the rest zero.
ByteAt(buf, i) == IF i <= Len(buf) THEN buf[i] ELSE "NUL"

ReadInto(data) ==
    IF Len(data) <= BUFFER_SIZE THEN data ELSE SubSeq(data, 1, BUFFER_SIZE)

\* <[u8]>::starts_with on the 1024-byte array
starts_with(buf, needle) ==
    /\ Len(needle) <= BUFFER_SIZE
    /\ \A i \in 1..Len(needle) : ByteAt(buf, i) = needle[i]

\* a variant of check: the path is compared, the method is not
check_any_method(ep, buf) ==
    \E m \in Method : starts_with(buf, http_str([ep EXCEPT !.method = m]))

\* Handler::check
check(ep, buf) == starts_with(buf, http_str(ep))

\* self.end_points.iter().find(|&x| x.check(&buffer)) : index of the route
\* found, scanning from the front; 0 for None.
RECURSIVE FindFrom(_, _, _)
FindFrom(eps, buf, i) ==
    IF i > Len(eps) THEN 0
    ELSE IF check(eps[i], buf) THEN i
    ELSE FindFrom(eps, buf, i + 1)

\* a variant of find: the last matching route wins
find_last(eps, buf) ==
    IF \E i \in 1..Len(eps) : check(eps[i], buf)
    THEN CHOOSE i \in 1..Len(eps) :
           /\ check(eps[i], buf)
           /\ \A j \in 1..Len(eps) : check(eps[j], buf) => j <= i
    ELSE 0

find(eps, buf) == FindFrom(eps, buf, 1)

-----------------------------------------------------------------------------
\* Server::mount : path.split("/"), filter(!is_empty), "/" + join("/")

\* str::split("/") : the pieces between separators, empty pieces kept.
RECURSIVE SplitFrom(_, _, _)
SplitFrom(s, i, cur) ==
    IF i > Len(s) THEN <<cur>>
    ELSE IF s[i] = "/" THEN <<cur>> \o SplitFrom(s, i + 1, <<>>)
    ELSE SplitFrom(s, i + 1, Append(cur, s[i]))

split(s) == SplitFrom(s, 1, <<>>)

\* a variant of filter_non_empty: nothing is filtered out
filter_keep_all(ps) == ps

\* .filter(|s| !s.is_empty())
RECURSIVE filter_non_empty(_)
filter_non_empty(ps) ==
    IF ps = <<>> THEN <<>>
    ELSE IF Head(ps) = <<>> THEN filter_non_empty(Tail(ps))
    ELSE <<Head(ps)>> \o filter_non_empty(Tail(ps))

\* [&str]::join("/")
RECURSIVE join(_)
join(ps) ==
    IF ps = <<>> THEN <<>>
    ELSE IF Len(ps) = 1 THEN Head(ps)
    ELSE Head(ps) \o <<"/">> \o join(Tail(ps))

\* the path a sub-route is registered at (server.rs 168-173)
mount_path(prefix, sub) ==
    <<"/">> \o join(filter_non_empty(split(prefix) \o split(sub)))

\* the handlers mount pushes for a router's end points, in order
RECURSIVE mount_routes(_, _)
mount_routes(prefix, routes) ==
    IF routes = <<>> THEN <<>>
    ELSE <<Handler(mount_path(prefix, Head(routes).path),
                   Head(routes).method, Head(routes).handler)>>
         \o mount_routes(prefix, Tail(routes))

\* a variant of ServerNewPoolSize: the argument is taken as it is
ServerNewPoolSize_NoClamp(arg) == arg

\* Server::new : pool_size.max(2)
ServerNewPoolSize(arg) == IF arg >= MIN_POOL_SIZE THEN arg ELSE MIN_POOL_SIZE

-----------------------------------------------------------------------------
\* Inputs.

Slash == <<"/">>

PathX == <<"/", "x">>

PathUser == <<"/", "u", "s", "e", "r">>

PathJson == <<"/", "j", "s", "o", "n", "d", "a", "t", "a">>

PathProfile == <<"/", "p", "r", "o", "f", "i", "l", "e">>

Http11 == <<" ", "H", "T", "T", "P", "/", "1", ".", "1", "CR", "LF">>

HostHeader == <<"H", "o", "s", "t", ":", " ", "h", "CR", "LF", "CR", "LF">>

GetSp == <<"G", "E", "T", " ">>

PostSp == <<"P", "O", "S", "T", " ">>

\* the three routes main registers (main.rs 9, 23, 37), in order
MainRoutes ==
    << [path |-> Slash, h |-> "index"],
       [path |-> PathUser, h |-> "user"],
       [path |-> PathJson, h |-> "jsondata"] >>

\* what a client sends on a connection of the pool specification
PoolRequests ==
    { GetSp \o PathUser \o Http11 \o HostHeader,
      PostSp \o Slash \o Http11 }

\* what a client sends on a connection of the route specification
RouteRequests ==
    { GetSp \o Slash \o Http11 \o HostHeader,
      GetSp \o PathX \o Http11,
      PostSp \o Slash \o Http11 }

\* (path, handler) pairs the route specification registers with get/post/put/delete
GetInputs == { <<Slash, "A">>, <<Slash, "B">> }

PostInputs == { <<Slash, "B">> }

PutInputs == { <<PathX, "A">> }

DeleteInputs == { <<Slash, "A">> }

\* contents of static/404.html
Contents == { <<>>, <<"n", "f">> }

PoolContents == { <<"n", "f">> }

\* pool_size arguments of Server::new in the route and mount specifications
SmallPoolArgs == { MIN_POOL_SIZE }

\* mount prefixes and sub-router paths
Prefixes ==
    { <<>>, Slash, PathUser, <<"u", "/">>, <<"/", "/", "u", "/">>,
      <<"/", "u", "/", "v">> }

SubPaths ==
    { <<>>, Slash, PathProfile, <<"p", "/">>, <<"/", "p", "/", "/", "q">> }

\* Route::new
Route(path, method, h) == [method |-> method, path |-> path, handler |-> h]

\* Router::new and the four registration methods of impl RequestHandler for Router
RouterNew == <<>>

RouterGet(r, path, h) == Append(r, Route(path, "Get", h))

RouterPost(r, path, h) == Append(r, Route(path, "Post", h))

RouterPut(r, path, h) == Append(r, Route(path, "Put", h))

RouterDelete(r, path, h) == Append(r, Route(path, "Delete", h))

\* the routers handed to mount
Routers ==
    {RouterNew}
      \cup { RouterGet(RouterNew, p, "A") : p \in SubPaths }
      \cup { RouterPost(RouterGet(RouterNew, PathProfile, "A"), p, "B") : p \in SubPaths }
      \cup { RouterDelete(RouterPut(RouterNew, p, "B"), Slash, "A") : p \in SubPaths }

-----------------------------------------------------------------------------
\* State.

Workers == DOMAIN wstate

\* a worker thread that has not ended: it still owns its clone of the Arc
\* around the Receiver
ThreadRunning(w) == wstate[w] \notin {"exited", "panicked"}

\* Sender::send fails only when the Receiver has been dropped, which is when
\* the last thread holding a clone of the Arc has ended
ReceiverAlive == \E w \in Workers : ThreadRunning(w)

NewConn ==
    [read |-> FALSE, buf |-> <<>>, h |-> NoHandler, content |-> <<>>,
     res |-> NoRes, flushed |-> FALSE, execs |-> 0, ran |-> NoHandler]

cur == Len(conns)

\* Server::new("127.0.0.1:3000", arg)
InitWith(args) ==
    /\ pc = "config"
    /\ end_points = <<>>
    /\ pool_arg \in args
    /\ pool_size = ServerNewPoolSize(pool_arg)
    /\ wstate = <<>>
    /\ wjob = <<>>
    /\ lock = {}
    /\ queue = <<>>
    /\ dropIdx = 0
    /\ buffer = <<>>
    /\ res = NoRes
    /\ conns = <<>>
    /\ mounted = <<>>
    /\ term_sent = 0
    /\ term_got = <<>>
    /\ err = "none"

Init == InitWith(0..MaxPoolArg)

-----------------------------------------------------------------------------
\* Registration (the main thread, before run).

Push(path, method, h) ==
    /\ pc = "config"
    /\ end_points' = Append(end_points, Handler(path, method, h))
    /\ UNCHANGED <<pool_arg, term_sent, term_got, mounted, pc, pool_size,
                   wstate, wjob, lock, queue, dropIdx, buffer, res, conns,
                   err>>

ServerGet(path, h) == Push(path, "Get", h)

ServerPost(path, h) == Push(path, "Post", h)

ServerDelete(path, h) == Push(path, "Delete", h)

ServerPut(path, h) == Push(path, "Put", h)

Mount(prefix, router) ==
    /\ pc = "config"
    /\ end_points' = end_points \o mount_routes(prefix, router)
    /\ mounted' = <<[prefix |-> prefix, router |-> router,
                     at |-> Len(end_points)]>>
    /\ UNCHANGED <<pool_arg, term_sent, term_got, pc, pool_size, wstate, wjob,
                   lock, queue, dropIdx, buffer, res, conns, err>>

-----------------------------------------------------------------------------
\* Server::run (the main thread).

\* a variant of ThreadPoolNew: one thread more than asked for
ThreadPoolNew_Extra(size) ==
    /\ wstate' = [w \in 0..size |-> "wait"]
    /\ wjob' = [w \in 0..size |-> NoJob]
    /\ lock' = {}
    /\ queue' = <<>>
    /\ term_got' = [w \in 0..size |-> 0]

\* ThreadPool::new(size) : `size` workers, each spawned into its loop
ThreadPoolNew(size) ==
    /\ wstate' = [w \in 0..(size - 1) |-> "wait"]
    /\ wjob' = [w \in 0..(size - 1) |-> NoJob]
    /\ lock' = {}
    /\ queue' = <<>>
    /\ term_got' = [w \in 0..(size - 1) |-> 0]

\* a variant of Raise: run returns the error at once, the pool is not dropped
Raise_NoDrop(e) ==
    /\ err' = e
    /\ pc' = "returned"
    /\ dropIdx' = 0
    /\ buffer' = <<>>
    /\ res' = NoRes

\* leaving run with `?` : the locals of the loop body go out of scope and the
\* pool is dropped before run returns
Raise(e) ==
    /\ err' = e
    /\ pc' = "drop_send"
    /\ dropIdx' = 0
    /\ buffer' = <<>>
    /\ res' = NoRes

\* TcpListener::bind fails : run returns before the pool exists
BindErr ==
    /\ pc = "config"
    /\ err' = "bind"
    /\ pc' = "returned"
    /\ UNCHANGED <<pool_arg, term_sent, term_got, mounted, end_points,
                   pool_size, wstate, wjob, lock, queue, dropIdx, buffer, res,
                   conns>>

\* TcpListener::bind, then ThreadPool::new(self.pool_size)
BindOk ==
    /\ pc = "config"
    /\ pc' = "log"
    /\ ThreadPoolNew(pool_size)
    /\ UNCHANGED <<pool_arg, term_sent, mounted, end_points, pool_size,
                   dropIdx, buffer, res, conns, err>>

\* self.log()?
LogOk ==
    /\ pc = "log"
    /\ pc' = "accept"
    /\ UNCHANGED <<pool_arg, term_sent, term_got, mounted, end_points,
                   pool_size, wstate, wjob, lock, queue, dropIdx, buffer, res,
                   conns, err>>

LogErr ==
    /\ pc = "log"
    /\ Raise("log")
    /\ UNCHANGED <<pool_arg, term_sent, term_got, mounted, end_points,
                   pool_size, wstate, wjob, lock, queue, conns>>

\* listener.incoming() yields a connection : `let mut stream = stream?`
AcceptOk ==
    /\ pc = "accept"
    /\ pc' = "read"
    /\ conns' = Append(conns, NewConn)
    /\ UNCHANGED <<pool_arg, term_sent, term_got, mounted, end_points,
                   pool_size, wstate, wjob, lock, queue, dropIdx, buffer, res,
                   err>>

\* a variant of AcceptErr: the error is noted and the loop goes on
AcceptErr_Retry ==
    /\ pc = "accept"
    /\ err' = "accept"
    /\ UNCHANGED <<pool_arg, term_sent, term_got, mounted, pc, end_points,
                   pool_size, wstate, wjob, lock, queue, dropIdx, buffer, res,
                   conns>>

AcceptErr ==
    /\ pc = "accept"
    /\ Raise("accept")
    /\ UNCHANGED <<pool_arg, term_sent, term_got, mounted, end_points,
                   pool_size, wstate, wjob, lock, queue, conns>>

\* stream.read(&mut buffer)? delivers `data`
ReadOk(data) ==
    /\ pc = "read"
    /\ pc' = "match"
    /\ buffer' = ReadInto(data)
    /\ conns' = [conns EXCEPT ![cur].read = TRUE, ![cur].buf = ReadInto(data)]
    /\ UNCHANGED <<pool_arg, term_sent, term_got, mounted, end_points,
                   pool_size, wstate, wjob, lock, queue, dropIdx, res, err>>

ReadErr ==
    /\ pc = "read"
    /\ Raise("read")
    /\ UNCHANGED <<pool_arg, term_sent, term_got, mounted, end_points,
                   pool_size, wstate, wjob, lock, queue, conns>>

\* a variant of Dispatch: execute hands the job over only when a worker is
\* idle
Dispatch_WaitsIdle ==
    /\ pc = "match"
    /\ find(end_points, buffer) # 0
    /\ ReceiverAlive
    /\ \E w \in Workers : wstate[w] \in {"wait", "recv"}
    /\ LET ep == end_points[find(end_points, buffer)] IN
         /\ queue' = Append(queue, [type |-> "NewJob", conn |-> cur,
                                    h |-> ep.handler])
         /\ conns' = [conns EXCEPT ![cur].h = ep.handler]
    /\ pc' = "accept"
    /\ buffer' = <<>>
    /\ UNCHANGED <<pool_arg, term_sent, term_got, mounted, end_points,
                   pool_size, wstate, wjob, lock, dropIdx, res, err>>

\* a variant of Dispatch: the job is put at the front of the queue
Dispatch_Front ==
    /\ pc = "match"
    /\ find(end_points, buffer) # 0
    /\ ReceiverAlive
    /\ LET ep == end_points[find(end_points, buffer)] IN
         /\ queue' = <<[type |-> "NewJob", conn |-> cur, h |-> ep.handler]>>
                        \o queue
         /\ conns' = [conns EXCEPT ![cur].h = ep.handler]
    /\ pc' = "accept"
    /\ buffer' = <<>>
    /\ UNCHANGED <<pool_arg, term_sent, term_got, mounted, end_points,
                   pool_size, wstate, wjob, lock, dropIdx, res, err>>

\* ThreadPool::execute : self.sender.send(NewJob(..)).unwrap()
\* a route was found : pool.execute(move || f(stream))
Dispatch ==
    /\ pc = "match"
    /\ find(end_points, buffer) # 0
    /\ ReceiverAlive
    /\ LET ep == end_points[find(end_points, buffer)] IN
         /\ queue' = Append(queue, [type |-> "NewJob", conn |-> cur,
                                    h |-> ep.handler])
         /\ conns' = [conns EXCEPT ![cur].h = ep.handler]
    /\ pc' = "accept"
    /\ buffer' = <<>>
    /\ UNCHANGED <<pool_arg, term_sent, term_got, mounted, end_points,
                   pool_size, wstate, wjob, lock, dropIdx, res, err>>

\* send fails (every worker thread has ended, the Receiver is gone) : unwrap
\* panics in execute; the unwinding drops the pool, whose first send panics
\* again, which aborts the process
DispatchPanic ==
    /\ pc = "match"
    /\ find(end_points, buffer) # 0
    /\ ~ReceiverAlive
    /\ pc' = "panicked"
    /\ err' = "execute_panic"
    /\ UNCHANGED <<pool_arg, term_sent, term_got, mounted, end_points,
                   pool_size, wstate, wjob, lock, queue, dropIdx, buffer, res,
                   conns>>

\* format!("{}\r\nContent=Length: {}\r\n\r\n{}", STATUS_NOT_FOUND, len, content)
format_not_found(content) ==
    <<STATUS_NOT_FOUND, "\r\nContent=Length: ", ToString(Len(content)),
      "\r\n\r\n">> \o content

\* no route was found : fs::read_to_string("static/404.html")? and format!
FallbackRead(content) ==
    /\ pc = "match"
    /\ find(end_points, buffer) = 0
    /\ pc' = "write"
    /\ res' = format_not_found(content)
    /\ conns' = [conns EXCEPT ![cur].content = content]
    /\ UNCHANGED <<pool_arg, term_sent, term_got, mounted, end_points,
                   pool_size, wstate, wjob, lock, queue, dropIdx, buffer,
                   err>>

FallbackReadErr ==
    /\ pc = "match"
    /\ find(end_points, buffer) = 0
    /\ Raise("fallback_read")
    /\ UNCHANGED <<pool_arg, term_sent, term_got, mounted, end_points,
                   pool_size, wstate, wjob, lock, queue, conns>>

\* stream.write(res.as_bytes())?
WriteOk ==
    /\ pc = "write"
    /\ pc' = "flush"
    /\ conns' = [conns EXCEPT ![cur].res = res]
    /\ UNCHANGED <<pool_arg, term_sent, term_got, mounted, end_points,
                   pool_size, wstate, wjob, lock, queue, dropIdx, buffer, res,
                   err>>

WriteErr ==
    /\ pc = "write"
    /\ Raise("write")
    /\ UNCHANGED <<pool_arg, term_sent, term_got, mounted, end_points,
                   pool_size, wstate, wjob, lock, queue, conns>>

\* stream.flush()?
FlushOk ==
    /\ pc = "flush"
    /\ pc' = "accept"
    /\ conns' = [conns EXCEPT ![cur].flushed = TRUE]
    /\ buffer' = <<>>
    /\ res' = NoRes
    /\ UNCHANGED <<pool_arg, term_sent, term_got, mounted, end_points,
                   pool_size, wstate, wjob, lock, queue, dropIdx, err>>

FlushErr ==
    /\ pc = "flush"
    /\ Raise("flush")
    /\ UNCHANGED <<pool_arg, term_sent, term_got, mounted, end_points,
                   pool_size, wstate, wjob, lock, queue, conns>>

-----------------------------------------------------------------------------
\* Drop for ThreadPool (the main thread, on the way out of run).

\* a variant of DropSend: the terminate marker overtakes the queued jobs
DropSend_Front ==
    /\ pc = "drop_send"
    /\ dropIdx < Cardinality(Workers)
    /\ ReceiverAlive
    /\ queue' = <<[type |-> "Terminate", conn |-> 0, h |-> NoHandler]>> \o queue
    /\ dropIdx' = dropIdx + 1
    /\ term_sent' = term_sent + 1
    /\ UNCHANGED <<pool_arg, term_got, mounted, pc, end_points, pool_size,
                   wstate, wjob, lock, buffer, res, conns, err>>

\* for _ in &self.workers { self.sender.send(Message::Terminate).unwrap() }
DropSend ==
    /\ pc = "drop_send"
    /\ dropIdx < Cardinality(Workers)
    /\ ReceiverAlive
    /\ queue' = Append(queue, [type |-> "Terminate", conn |-> 0,
                               h |-> NoHandler])
    /\ dropIdx' = dropIdx + 1
    /\ term_sent' = term_sent + 1
    /\ UNCHANGED <<pool_arg, term_got, mounted, pc, end_points, pool_size,
                   wstate, wjob, lock, buffer, res, conns, err>>

\* the send fails : unwrap panics inside drop
DropSendPanic ==
    /\ pc = "drop_send"
    /\ dropIdx < Cardinality(Workers)
    /\ ~ReceiverAlive
    /\ pc' = "panicked"
    /\ err' = "drop_send_panic"
    /\ UNCHANGED <<pool_arg, term_sent, term_got, mounted, end_points,
                   pool_size, wstate, wjob, lock, queue, dropIdx, buffer, res,
                   conns>>

\* the first loop is over, the second starts
DropSendDone ==
    /\ pc = "drop_send"
    /\ dropIdx = Cardinality(Workers)
    /\ pc' = "drop_join"
    /\ dropIdx' = 0
    /\ UNCHANGED <<pool_arg, term_sent, term_got, mounted, end_points,
                   pool_size, wstate, wjob, lock, queue, buffer, res, conns,
                   err>>

\* a variant of DropJoin: the thread is detached instead of joined
DropJoin_NoWait ==
    /\ pc = "drop_join"
    /\ dropIdx < Cardinality(Workers)
    /\ wstate[dropIdx] # "panicked"
    /\ dropIdx' = dropIdx + 1
    /\ UNCHANGED <<pool_arg, term_sent, term_got, mounted, pc, end_points,
                   pool_size, wstate, wjob, lock, queue, buffer, res, conns,
                   err>>

\* if let Some(thread) = worker.thread.take() { thread.join().unwrap() }
\* join blocks until the thread has ended
DropJoin ==
    /\ pc = "drop_join"
    /\ dropIdx < Cardinality(Workers)
    /\ wstate[dropIdx] = "exited"
    /\ dropIdx' = dropIdx + 1
    /\ UNCHANGED <<pool_arg, term_sent, term_got, mounted, pc, end_points,
                   pool_size, wstate, wjob, lock, queue, buffer, res, conns,
                   err>>

\* the joined thread had panicked : join returns Err and unwrap panics
DropJoinPanic ==
    /\ pc = "drop_join"
    /\ dropIdx < Cardinality(Workers)
    /\ wstate[dropIdx] = "panicked"
    /\ pc' = "panicked"
    /\ err' = "join_panic"
    /\ UNCHANGED <<pool_arg, term_sent, term_got, mounted, end_points,
                   pool_size, wstate, wjob, lock, queue, dropIdx, buffer, res,
                   conns>>

\* drop is over : run returns Err(err) to main
DropDone ==
    /\ pc = "drop_join"
    /\ dropIdx = Cardinality(Workers)
    /\ pc' = "returned"
    /\ UNCHANGED <<pool_arg, term_sent, term_got, mounted, end_points,
                   pool_size, wstate, wjob, lock, queue, dropIdx, buffer, res,
                   conns, err>>

\* main.rs 60-63 : process::exit(1) on Err; a panic of the main thread ends
\* the process as well.  Every thread ends with the process.
ProcessExit ==
    /\ pc \in {"returned", "panicked"}
    /\ pc' = "exited"
    /\ UNCHANGED <<pool_arg, term_sent, term_got, mounted, end_points,
                   pool_size, wstate, wjob, lock, queue, dropIdx, buffer, res,
                   conns, err>>

-----------------------------------------------------------------------------
\* Worker::new : the loop of one worker thread.

\* a variant of Lock: the Receiver is shared without mutual exclusion
Lock_NoMutex(w) ==
    /\ pc # "exited"
    /\ wstate[w] = "wait"
    /\ lock' = lock \cup {w}
    /\ wstate' = [wstate EXCEPT ![w] = "recv"]
    /\ UNCHANGED <<pool_arg, term_sent, term_got, mounted, pc, end_points,
                   pool_size, wjob, queue, dropIdx, buffer, res, conns, err>>

\* receiver.lock().unwrap() : blocks until the mutex is free
Lock(w) ==
    /\ pc # "exited"
    /\ wstate[w] = "wait"
    /\ lock = {}
    /\ lock' = {w}
    /\ wstate' = [wstate EXCEPT ![w] = "recv"]
    /\ UNCHANGED <<pool_arg, term_sent, term_got, mounted, pc, end_points,
                   pool_size, wjob, queue, dropIdx, buffer, res, conns, err>>

\* a variant of RecvJob: the guard outlives the statement and is never
\* released
RecvJob_HoldLock(w) ==
    /\ pc # "exited"
    /\ wstate[w] = "recv"
    /\ lock = {w}
    /\ queue # <<>>
    /\ Head(queue).type = "NewJob"
    /\ queue' = Tail(queue)
    /\ lock' = {w}
    /\ wstate' = [wstate EXCEPT ![w] = "run"]
    /\ wjob' = [wjob EXCEPT ![w] = [conn |-> Head(queue).conn,
                                    h |-> Head(queue).h]]
    /\ conns' = [conns EXCEPT ![Head(queue).conn].execs = @ + 1,
                              ![Head(queue).conn].ran = Head(queue).h]
    /\ UNCHANGED <<pool_arg, term_sent, term_got, mounted, pc, end_points,
                   pool_size, dropIdx, buffer, res, err>>

\* .recv().unwrap() returns the oldest message; the guard is a temporary of
\* the `let` statement, so the mutex is released before the match
\* Message::NewJob(job) => job()
RecvJob(w) ==
    /\ pc # "exited"
    /\ wstate[w] = "recv"
    /\ lock = {w}
    /\ queue # <<>>
    /\ Head(queue).type = "NewJob"
    /\ queue' = Tail(queue)
    /\ lock' = {}
    /\ wstate' = [wstate EXCEPT ![w] = "run"]
    /\ wjob' = [wjob EXCEPT ![w] = [conn |-> Head(queue).conn,
                                    h |-> Head(queue).h]]
    /\ conns' = [conns EXCEPT ![Head(queue).conn].execs = @ + 1,
                              ![Head(queue).conn].ran = Head(queue).h]
    /\ UNCHANGED <<pool_arg, term_sent, term_got, mounted, pc, end_points,
                   pool_size, dropIdx, buffer, res, err>>

\* a variant of RecvTerminate: the worker picks the first terminate marker of
\* the queue, whatever is ahead of it
RecvTerminate_Any(w) ==
    /\ pc # "exited"
    /\ wstate[w] = "recv"
    /\ lock = {w}
    /\ \E i \in 1..Len(queue) :
         /\ queue[i].type = "Terminate"
         /\ \A j \in 1..(i - 1) : queue[j].type # "Terminate"
         /\ queue' = SubSeq(queue, 1, i - 1) \o SubSeq(queue, i + 1, Len(queue))
    /\ lock' = {}
    /\ wstate' = [wstate EXCEPT ![w] = "exited"]
    /\ term_got' = [term_got EXCEPT ![w] = @ + 1]
    /\ UNCHANGED <<pool_arg, term_sent, mounted, pc, end_points, pool_size, wjob,
                   dropIdx, buffer, res, conns, err>>

\* a variant of RecvTerminate: the marker cancels a job that does not return
RecvTerminate_Cancels(w) ==
    /\ pc # "exited"
    /\ \/ wstate[w] = "recv" /\ lock = {w}
       \/ wstate[w] = "hung" /\ lock = {}
    /\ queue # <<>>
    /\ Head(queue).type = "Terminate"
    /\ queue' = Tail(queue)
    /\ lock' = {}
    /\ wstate' = [wstate EXCEPT ![w] = "exited"]
    /\ term_got' = [term_got EXCEPT ![w] = @ + 1]
    /\ UNCHANGED <<pool_arg, term_sent, mounted, pc, end_points, pool_size, wjob,
                   dropIdx, buffer, res, conns, err>>

\* Message::Terminate => break
RecvTerminate(w) ==
    /\ pc # "exited"
    /\ wstate[w] = "recv"
    /\ lock = {w}
    /\ queue # <<>>
    /\ Head(queue).type = "Terminate"
    /\ queue' = Tail(queue)
    /\ lock' = {}
    /\ wstate' = [wstate EXCEPT ![w] = "exited"]
    /\ term_got' = [term_got EXCEPT ![w] = @ + 1]
    /\ UNCHANGED <<pool_arg, term_sent, mounted, pc, end_points, pool_size,
                   wjob, dropIdx, buffer, res, conns, err>>

\* job() returns : back to the top of the loop
JobReturn(w) ==
    /\ pc # "exited"
    /\ wstate[w] = "run"
    /\ wstate' = [wstate EXCEPT ![w] = "wait"]
    /\ wjob' = [wjob EXCEPT ![w] = NoJob]
    /\ UNCHANGED <<pool_arg, term_sent, term_got, mounted, pc, end_points,
                   pool_size, lock, queue, dropIdx, buffer, res, conns, err>>

\* job() panics (an unwrap of main.rs 10, 19, 20, ... fails) : nothing in the
\* loop catches it, the thread unwinds and ends
JobPanic(w) ==
    /\ pc # "exited"
    /\ wstate[w] = "run"
    /\ wstate' = [wstate EXCEPT ![w] = "panicked"]
    /\ wjob' = [wjob EXCEPT ![w] = NoJob]
    /\ UNCHANGED <<pool_arg, term_sent, term_got, mounted, pc, end_points,
                   pool_size, lock, queue, dropIdx, buffer, res, conns, err>>

\* job() never returns (a handler blocked for ever)
JobHang(w) ==
    /\ pc # "exited"
    /\ wstate[w] = "run"
    /\ wstate' = [wstate EXCEPT ![w] = "hung"]
    /\ UNCHANGED <<pool_arg, term_sent, term_got, mounted, pc, end_points,
                   pool_size, wjob, lock, queue, dropIdx, buffer, res, conns,
                   err>>

WorkerStep(w) ==
    \/ Lock(w)
    \/ RecvJob(w)
    \/ RecvTerminate(w)
    \/ JobReturn(w)
    \/ JobPanic(w)
    \/ JobHang(w)

-----------------------------------------------------------------------------
\* The program of main.rs : three routes, then run.

\* main.rs 9, 23, 37 : the next server.get of main
MainGet ==
    /\ Len(end_points) < Len(MainRoutes)
    /\ ServerGet(MainRoutes[Len(end_points) + 1].path,
                 MainRoutes[Len(end_points) + 1].h)

\* the serve loop and the teardown, for at most `maxc` connections
Serve(maxc, requests, contents) ==
    \/ LogOk
    \/ LogErr
    \/ (Len(conns) < maxc /\ AcceptOk)
    \/ AcceptErr
    \/ \E data \in requests : ReadOk(data)
    \/ ReadErr
    \/ Dispatch
    \/ \E content \in contents : FallbackRead(content)
    \/ FallbackReadErr
    \/ WriteOk
    \/ WriteErr
    \/ FlushOk
    \/ FlushErr
    \/ DropSend
    \/ DropSendPanic
    \/ DropSendDone
    \/ DropJoin
    \/ DropJoinPanic
    \/ DropDone
    \/ ProcessExit
    \/ \E w \in Workers : WorkerStep(w)

Next ==
    \/ MainGet
    \/ (Len(end_points) = Len(MainRoutes) /\ BindOk)
    \/ (Len(end_points) = Len(MainRoutes) /\ BindErr)
    \/ Serve(MaxConns, PoolRequests, PoolContents)
    \/ DispatchPanic

Spec == Init /\ [][Next]_vars

-----------------------------------------------------------------------------
\* Any route table of at most MaxRoutes routes, then run.  DispatchPanic needs
\* pool_size jobs to have panicked before another connection is matched; the
\* runs of this specification are shorter than that.

RouteNext ==
    \/ /\ Len(end_points) < MaxRoutes
       /\ \/ \E in \in GetInputs : ServerGet(in[1], in[2])
          \/ \E in \in PostInputs : ServerPost(in[1], in[2])
          \/ \E in \in PutInputs : ServerPut(in[1], in[2])
          \/ \E in \in DeleteInputs : ServerDelete(in[1], in[2])
    \/ BindOk
    \/ BindErr
    \/ Serve(MaxRouteConns, RouteRequests, Contents)

RouteSpec == InitWith(SmallPoolArgs) /\ [][RouteNext]_vars

-----------------------------------------------------------------------------
\* Any sequence of mounts that registers at most MaxRoutes routes.

MountNext ==
    \E prefix \in Prefixes, router \in Routers :
        /\ Len(end_points) + Len(router) <= MaxRoutes
        /\ Mount(prefix, router)

MountSpec == InitWith(SmallPoolArgs) /\ [][MountNext]_vars

-----------------------------------------------------------------------------
\* The program of main.rs with any pool_size argument up to MaxSizeArg.

SizeNext ==
    \/ MainGet
    \/ (Len(end_points) = Len(MainRoutes) /\ BindOk)
    \/ (Len(end_points) = Len(MainRoutes) /\ BindErr)
    \/ Serve(MaxSizeConns, PoolRequests, PoolContents)

SizeSpec == InitWith(0..MaxSizeArg) /\ [][SizeNext]_vars

-----------------------------------------------------------------------------
\* Fair scheduling of the threads: a worker that can take the free mutex,
\* receive a waiting message or finish its job does so, and the main thread,
\* once in drop, takes its next step when it can.  Nothing is assumed of the
\* clients, of the I/O results or of the process exit.

MaxWorkers == ServerNewPoolSize(MaxPoolArg)

WorkerProgress(w) ==
    /\ w \in Workers
    /\ (Lock(w) \/ RecvJob(w) \/ RecvTerminate(w) \/ JobReturn(w))

DropProgress ==
    \/ DropSend
    \/ DropSendPanic
    \/ DropSendDone
    \/ DropJoin
    \/ DropJoinPanic
    \/ DropDone

FairSpec ==
    /\ Spec
    /\ \A w \in 0..(MaxWorkers - 1) : WF_vars(WorkerProgress(w))
    /\ WF_vars(DropProgress)

-----------------------------------------------------------------------------
\* Vocabulary of the properties.

PanicErrs == {"execute_panic", "drop_send_panic", "join_panic"}

\* the pool exists and its drop has run to its end
TeardownCompleted ==
    /\ Workers # {}
    /\ pc \in {"returned", "exited"}
    /\ err \notin PanicErrs

Submitted(c) == conns[c].h # NoHandler

Queued(c) ==
    \E i \in 1..Len(queue) : queue[i].type = "NewJob" /\ queue[i].conn = c

Started(c) == c <= Len(conns) /\ conns[c].execs >= 1

RECURSIVE TotalExecs(_)
TotalExecs(n) == IF n = 0 THEN 0 ELSE conns[n].execs + TotalExecs(n - 1)

\* workers that can still dequeue: not ended, not stuck in a job for ever
AvailableWorkers ==
    { w \in Workers : pc # "exited" /\ wstate[w] \in {"wait", "recv", "run"} }

SomeHung == \E w \in Workers : wstate[w] = "hung"

\* the request line of a route, written out
UpperName(m) ==
    IF m = "Get" THEN GetSp
    ELSE IF m = "Post" THEN PostSp
    ELSE IF m = "Put" THEN <<"P", "U", "T", " ">>
    ELSE <<"D", "E", "L", "E", "T", "E", " ">>

LiteralLine(ep) == UpperName(ep.method) \o ep.path \o Http11

IsPrefix(p, s) == Len(p) <= Len(s) /\ SubSeq(s, 1, Len(p)) = p

\* the registered routes whose literal line is a prefix of what was read on
\* connection c
Matching(c) ==
    { i \in 1..Len(end_points) :
        IsPrefix(LiteralLine(end_points[i]), conns[c].buf) }

\* the main thread is past the lookup for connection c
LookupDone(c) == c < cur \/ pc \notin {"read", "match"}

Body(r) == SubSeq(r, 5, Len(r))

-----------------------------------------------------------------------------
\* C1: once the pool has been torn down, every job submitted with execute
\* has been executed exactly once: no job is ever executed twice or without
\* having been submitted, none is left in the queue, and the total number of
\* executions equals the number K of submitted jobs.
C1_ExactlyOnce ==
    /\ \A c \in 1..Len(conns) :
         /\ conns[c].execs <= 1
         /\ conns[c].execs = 1 => Submitted(c)
    /\ TeardownCompleted =>
         /\ \A c \in 1..Len(conns) :
              conns[c].execs = IF Submitted(c) THEN 1 ELSE 0
         /\ TotalExecs(Len(conns))
              = Cardinality({ c \in 1..Len(conns) : Submitted(c) })
         /\ queue = <<>>

C1_Witness ==
    /\ TeardownCompleted
    /\ Cardinality({ c \in 1..Len(conns) : Submitted(c) }) = 3
    /\ TotalExecs(Len(conns)) = 3

\* C2: under fair scheduling every submitted job is eventually dequeued and
\* run, unless no worker is left that can still dequeue (each has ended, or
\* is stuck in a job that never returns).
C2_EveryJobRuns ==
    \A c \in 1..MaxConns : Queued(c) ~> (Started(c) \/ AvailableWorkers = {})

C2_Witness ==
    /\ \E c \in 1..Len(conns) : c >= 2 /\ conns[c].execs = 1
    /\ \E w \in Workers : wstate[w] = "panicked"
    /\ \E w \in Workers : wstate[w] = "run"

\* C3: teardown does not return before every worker thread has left its
\* loop and been joined: the workers already joined have exited, and once
\* teardown has completed no worker waits for the mutex, sits in recv or
\* runs a job.
C3_TeardownJoinsAll ==
    /\ pc = "drop_join" => \A w \in Workers : w < dropIdx => wstate[w] = "exited"
    /\ TeardownCompleted =>
         /\ \A w \in Workers : wstate[w] = "exited"
         /\ lock = {}
         /\ dropIdx = pool_size

C3_Witness ==
    /\ TeardownCompleted
    /\ pc = "returned"
    /\ \E c \in 1..Len(conns) : conns[c].execs = 1

\* C4: under fair scheduling a teardown that has started eventually returns,
\* unless some job never terminates.
C4_TeardownReturns == (pc = "drop_send") ~> (pc = "returned" \/ SomeHung)

\* C5: a connection whose buffer begins with the literal line of at least
\* one registered route is dispatched to the handler of the first such route
\* in registration order and to no other: that handler is the one submitted,
\* queued and invoked, and no fallback response is written.
C5_FirstMatchWins ==
    \A c \in 1..Len(conns) :
        conns[c].read =>
            LET m == Matching(c) IN
              m # {} =>
                LET first == CHOOSE i \in m : \A j \in m : i <= j
                    h == end_points[first].handler
                IN  /\ conns[c].h \in {NoHandler, h}
                    /\ (LookupDone(c) /\ err # "execute_panic") => conns[c].h = h
                    /\ conns[c].ran \in {NoHandler, h}
                    /\ \A i \in 1..Len(queue) : queue[i].conn = c => queue[i].h = h
                    /\ \A w \in Workers : wjob[w].conn = c => wjob[w].h = h
                    /\ conns[c].res = NoRes

C5_Witness ==
    \E c \in 1..Len(conns) :
        /\ conns[c].read
        /\ Cardinality(Matching(c)) = 2
        /\ end_points[1].handler = "A"
        /\ end_points[2].handler = "B"
        /\ Len(conns[c].buf) > Len(LiteralLine(end_points[1]))
        /\ conns[c].ran = "A"

\* C6: for a connection whose buffer begins with no registered route's
\* literal line, no job is submitted and no handler is invoked; the response
\* the main thread writes is the 404 status line, the length header and the
\* fallback body unmodified, and it has been written and flushed before the
\* main thread is back at accept.
C6_FallbackInline ==
    \A c \in 1..Len(conns) :
        (conns[c].read /\ Matching(c) = {}) =>
            /\ conns[c].h = NoHandler
            /\ conns[c].execs = 0
            /\ conns[c].ran = NoHandler
            /\ \A i \in 1..Len(queue) : queue[i].conn # c
            /\ \A w \in Workers : wjob[w].conn # c
            /\ conns[c].res # NoRes =>
                 /\ conns[c].res[1] = "HTTP/1.1 404 NOT_FOUND"
                 /\ Body(conns[c].res) = conns[c].content
            /\ (c < cur \/ pc = "accept") =>
                 /\ conns[c].res # NoRes
                 /\ conns[c].flushed

C6_Witness ==
    \E c \in 1..Len(conns) :
        /\ conns[c].read
        /\ conns[c].buf = PostSp \o Slash \o Http11
        /\ \E i \in 1..Len(end_points) :
             end_points[i].method = "Get" /\ end_points[i].path = Slash
        /\ Matching(c) = {}
        /\ pc = "accept"
        /\ Body(conns[c].res) = <<"n", "f">>

\* the maximal runs of non-'/' characters of a string, in order
SegStarts(s) ==
    { i \in 1..Len(s) : s[i] # "/" /\ (i = 1 \/ s[i - 1] = "/") }

SegEnd(s, i) ==
    CHOOSE j \in i..Len(s) :
        /\ \A k \in i..j : s[k] # "/"
        /\ (j = Len(s) \/ s[j + 1] = "/")

NthStart(s, k) ==
    CHOOSE i \in SegStarts(s) : Cardinality({ j \in SegStarts(s) : j <= i }) = k

Segments(s) ==
    [ k \in 1..Cardinality(SegStarts(s)) |->
        SubSeq(s, NthStart(s, k), SegEnd(s, NthStart(s, k))) ]

\* p is the segments of prefix, then those of sub, each behind one '/'
WellJoined(p, prefix, sub) ==
    LET sp == Segments(p)
        s1 == Segments(prefix)
        s2 == Segments(sub)
    IN  /\ Len(p) >= 1
        /\ p[1] = "/"
        /\ Len(p) >= 2 => p[2] # "/"
        /\ \A i \in 1..(Len(p) - 1) : ~(p[i] = "/" /\ p[i + 1] = "/")
        /\ Len(sp) = Len(s1) + Len(s2)
        /\ \A k \in 1..Len(sp) :
             sp[k] = IF k <= Len(s1) THEN s1[k] ELSE s2[k - Len(s1)]

\* C7: mount(prefix, router) appends one route per sub-route, in order, with
\* the sub-route's method and handler, at the path made of the non-empty
\* segments of prefix followed by those of the sub-route's path, each behind
\* a single '/': one leading '/', no "//", no segment merged or lost; "/user"
\* and "/profile" give "/user/profile".
C7_MountJoinsPaths ==
    \A n \in 1..Len(mounted) :
        LET m == mounted[n] IN
          /\ Len(end_points) >= m.at + Len(m.router)
          /\ \A k \in 1..Len(m.router) :
               LET e == end_points[m.at + k] IN
                 /\ WellJoined(e.path, m.prefix, m.router[k].path)
                 /\ e.method = m.router[k].method
                 /\ e.handler = m.router[k].handler
                 /\ (m.prefix = PathUser /\ m.router[k].path = PathProfile) =>
                      e.path = <<"/", "u", "s", "e", "r",
                                 "/", "p", "r", "o", "f", "i", "l", "e">>

C7_Witness ==
    /\ mounted # <<>>
    /\ mounted[1].prefix = <<"/", "/", "u", "/">>
    /\ Len(mounted[1].router) = 1
    /\ mounted[1].router[1].path = <<"/", "p", "/", "/", "q">>
    /\ end_points[Len(end_points)].path = <<"/", "u", "/", "p", "/", "q">>
    /\ end_points[1].path = PathUser \o PathProfile

\* C8: between the construction of the pool and the start of its teardown
\* the number of live worker threads equals the configured size.
PoolInService == pc \in {"log", "accept", "read", "match", "write", "flush"}

C8_LiveWorkersEqualSize ==
    PoolInService =>
        Cardinality({ w \in Workers : ThreadRunning(w) }) = pool_size

\* C9: execute on a pool that has not been shut down never fails.
C9_ExecuteNeverFails == err # "execute_panic"

\* C10: an accept or read error ends the serve loop for good: from then on
\* the main thread is never again at a step of the loop, no connection is
\* accepted, read, matched, answered or dispatched, and what run returns is
\* that error.
ServingError == err \in {"accept", "read"}

InLoop == pc \in {"config", "log", "accept", "read", "match", "write", "flush"}

NewJobs(q) == Cardinality({ i \in 1..Len(q) : q[i].type = "NewJob" })

C10_ServingErrorIsFatal ==
    /\ [](ServingError => ~InLoop)
    /\ [][ ServingError =>
             /\ ~InLoop'
             /\ Len(conns') = Len(conns)
             /\ \A c \in 1..Len(conns) :
                  /\ conns'[c].read = conns[c].read
                  /\ conns'[c].h = conns[c].h
                  /\ conns'[c].res = conns[c].res
             /\ NewJobs(queue') <= NewJobs(queue)
             /\ (pc' = "returned" => err' = err)
             /\ (err' = err \/ pc' = "panicked")
       ]_vars

C10_Witness ==
    /\ pc = "returned"
    /\ err = "read"
    /\ Len(conns) = 3
    /\ \E c \in 1..Len(conns) : conns[c].execs = 1

\* C11: an unreadable fallback resource makes run fail at startup: when run
\* has failed on reading static/404.html, no connection had been accepted and
\* none had been dispatched to the pool.
C11_FallbackFailureAtStartup ==
    err = "fallback_read" =>
        /\ conns = <<>>
        /\ \A c \in 1..Len(conns) : ~Submitted(c)

TerminatesQueued ==
    Cardinality({ i \in 1..Len(queue) : queue[i].type = "Terminate" })

RECURSIVE TotalGot(_)
TotalGot(n) == IF n = 0 THEN 0 ELSE term_got[n - 1] + TotalGot(n - 1)

\* the drop of the pool is over: it ran to its end, or a panic ended it
DropEnded == Workers # {} /\ pc \in {"returned", "panicked", "exited"}

\* C12: teardown of a pool of N workers enqueues exactly N terminate markers
\* and each worker dequeues exactly one of them: no more than N are ever
\* sent, no worker receives two, every marker sent is in the queue or was
\* received by one worker, and when the drop is over all N were sent, every
\* worker has received its marker and none is left in the queue.
C12_OneTerminateEach ==
    /\ term_sent <= Cardinality(Workers)
    /\ \A w \in Workers : term_got[w] <= 1
    /\ term_sent = TerminatesQueued + TotalGot(Cardinality(Workers))
    /\ DropEnded =>
         /\ term_sent = Cardinality(Workers)
         /\ \A w \in Workers : term_got[w] = 1
         /\ TerminatesQueued = 0

\* C13: a terminate marker never overtakes work: in the queue no job is
\* behind a terminate marker, a worker dequeues a terminate marker only when
\* no job is in the queue, and only between jobs: a worker that is executing
\* a job does not receive its marker before that job has returned.
C13_TerminateNeverOvertakes ==
    /\ [](\A i \in 1..Len(queue) : \A j \in (i + 1)..Len(queue) :
             queue[i].type = "Terminate" => queue[j].type = "Terminate")
    /\ [][ \A w \in Workers :
             /\ term_got'[w] > term_got[w] =>
                  /\ NewJobs(queue) = 0
                  /\ wstate[w] = "recv"
                  /\ wjob[w] = NoJob
                  /\ Head(queue).type = "Terminate"
             /\ wstate[w] \in {"run", "hung"} =>
                  /\ term_got'[w] = term_got[w]
                  /\ wstate'[w] # "exited"
       ]_vars

\* the teardown is waiting: a worker has taken its marker while another,
\* whose marker is queued, is still executing the last job submitted
C13_Witness ==
    /\ pc = "drop_join"
    /\ \E w \in Workers : term_got[w] = 1
    /\ \E w \in Workers : wstate[w] = "run" /\ wjob[w].conn = 3
    /\ TerminatesQueued >= 1

\* C14: a worker whose job never returns stays in that job for ever: it
\* dequeues no further job and no terminate marker and never takes the
\* mutex; and while such a worker exists the teardown of the pool has not
\* returned: run never returns to main.
C14_HungWorkerBlocksTeardown ==
    /\ [](SomeHung => (pc # "returned" /\ ~TeardownCompleted))
    /\ [][ \A w \in Workers :
             wstate[w] = "hung" =>
                 /\ wstate'[w] = "hung"
                 /\ wjob'[w] = wjob[w]
                 /\ term_got'[w] = term_got[w]
                 /\ w \notin lock'
       ]_vars

\* the teardown is stuck in join on the hung worker: its marker is queued,
\* every other worker has exited
C14_Witness ==
    /\ pc = "drop_join"
    /\ dropIdx \in Workers
    /\ wstate[dropIdx] = "hung"
    /\ \A w \in Workers \ {dropIdx} : wstate[w] = "exited"
    /\ TerminatesQueued = 1
    /\ lock = {}

\* every worker is executing a job
AllOccupied == Workers # {} /\ \A w \in Workers : wstate[w] \in {"run", "hung"}

\* C15: the main thread never waits for a worker.  Whatever the workers are
\* doing (every one of them may be executing a job, or stuck in one for
\* ever), its next step is possible: at accept a connection can be accepted,
\* then read; a matched one can be enqueued as long as a worker thread is
\* alive; an unmatched one can be answered, written and flushed.  And once a
\* connection has been submitted the main thread is back at accept, whether
\* or not the job has started.
C15_AcceptNeverWaits ==
    /\ pc = "accept" => ENABLED AcceptOk
    /\ pc = "read" => \A data \in PoolRequests : ENABLED ReadOk(data)
    /\ (pc = "match" /\ find(end_points, buffer) # 0 /\ ReceiverAlive) =>
          ENABLED Dispatch
    /\ (pc = "match" /\ find(end_points, buffer) = 0) =>
          \A content \in PoolContents : ENABLED FallbackRead(content)
    /\ pc = "write" => ENABLED WriteOk
    /\ pc = "flush" => ENABLED FlushOk
    /\ (PoolInService /\ cur >= 1 /\ Submitted(cur)) => pc = "accept"

\* both workers are stuck in jobs that never return; a third connection has
\* been matched and enqueued and the main thread is at accept again
C15_Witness ==
    /\ AllOccupied
    /\ \A w \in Workers : wstate[w] = "hung"
    /\ pc = "accept"
    /\ Len(conns) = 3
    /\ Queued(3)

\* the job of connection c is being executed
Running(c) ==
    \E w \in Workers : wstate[w] \in {"run", "hung"} /\ wjob[w].conn = c

\* C16: jobs are in the queue in the order their connections were accepted,
\* and are dequeued in that order: every job dequeued so far belongs to an
\* earlier connection than every job still queued, the dequeued jobs are the
\* first ones submitted, and each dequeue takes the oldest message.
\* (Completion may be in another order: the witness.)
C16_FifoAdmission ==
    /\ [](\A i \in 1..Len(queue) : \A j \in (i + 1)..Len(queue) :
             (queue[i].type = "NewJob" /\ queue[j].type = "NewJob") =>
                 queue[i].conn < queue[j].conn)
    /\ [](\A c \in 1..Len(conns) : \A d \in 1..Len(conns) :
             (Started(c) /\ Submitted(d) /\ d < c) => Started(d))
    /\ [][ Len(queue') < Len(queue) => queue' = Tail(queue) ]_vars
    /\ [][ \A c \in 1..Len(conns) :
             (~Started(c) /\ Started(c)') =>
                 /\ Head(queue).conn = c
                 /\ \A d \in 1..Len(conns) : Queued(d) => c <= d
       ]_vars

\* the job of connection 2 has returned while the job of connection 1,
\* dequeued first, is still being executed
C16_Witness ==
    /\ pool_size >= 2
    /\ Started(1)
    /\ Running(1)
    /\ Started(2)
    /\ ~Running(2)
    /\ \A w \in Workers : wstate[w] \notin {"panicked", "hung"}

Executing == { w \in Workers : wstate[w] \in {"run", "hung"} }

RunningJobs == { c \in 1..Len(conns) : Running(c) }

\* C17: in every state of a pool of size N at most N jobs are being
\* executed, however many are queued, and a worker executes one job at a
\* time: the jobs in execution are as many as the workers executing, no job
\* is on two workers, and a job in execution is not in the queue.
C17_BoundedParallelism ==
    /\ Cardinality(RunningJobs) <= pool_size
    /\ Cardinality(Executing) <= pool_size
    /\ Cardinality(RunningJobs) = Cardinality(Executing)
    /\ \A v \in Executing : \A w \in Executing :
         wjob[v].conn = wjob[w].conn => v = w
    /\ \A c \in RunningJobs : ~Queued(c)

\* a pool of size 2 given 3 jobs: two are running, the third waits
C17_Witness ==
    /\ pool_size = 2
    /\ Cardinality(RunningJobs) = 2
    /\ NewJobs(queue) = 1
    /\ \A w \in Workers : wstate[w] = "run"

\* C18: a worker holds the mutex around the Receiver exactly while it is in
\* recv: at most one worker holds it, at most one worker is in recv, and no
\* worker that is executing a job holds it.  (So a job that runs long does
\* not keep the other workers from dequeuing: the witness.)
C18_LockOnlyWhileReceiving ==
    /\ Cardinality(lock) <= 1
    /\ Cardinality({ w \in Workers : wstate[w] = "recv" }) <= 1
    /\ \A w \in Workers : w \in lock <=> wstate[w] = "recv"
    /\ \A w \in Executing : w \notin lock

\* min(N, K) = 2 jobs execute at once in a pool of N = 2 given K = 3 jobs:
\* one worker is still in the job of connection 1, which never returns, and
\* the other has meanwhile dequeued the jobs of connections 2 and 3
C18_Witness ==
    /\ pool_size = 2
    /\ \E w \in Workers : wstate[w] = "hung" /\ wjob[w].conn = 1
    /\ \E w \in Workers : wstate[w] = "run" /\ wjob[w].conn = 3
    /\ Started(2)
    /\ lock = {}

\* the errors that `?` takes out of run once the pool exists
RunErrors == {"log", "accept", "read", "fallback_read", "write", "flush"}

\* C19: run does not return its error before the pool has been torn down:
\* when run has returned an error raised inside the serve loop, every job
\* dispatched before the error has been executed and has returned, none is
\* queued or in execution, and every worker has exited and been joined.
C19_ReturnAfterTeardown ==
    (pc \in {"returned", "exited"} /\ err \in RunErrors) =>
        /\ \A c \in 1..Len(conns) :
             Submitted(c) => (conns[c].execs = 1 /\ ~Running(c) /\ ~Queued(c))
        /\ \A w \in Workers : wstate[w] = "exited" /\ wjob[w] = NoJob
        /\ NewJobs(queue) = 0
        /\ dropIdx = Cardinality(Workers)

\* run has returned the accept error that followed two dispatched
\* connections, and both jobs have run
C19_Witness ==
    /\ pc = "returned"
    /\ err = "accept"
    /\ Len(conns) = 2
    /\ \A c \in 1..2 : Submitted(c) /\ conns[c].execs = 1

\* the pool of run exists
PoolCreated == pc # "config" /\ err # "bind"

\* C20: the pool a Server runs with has max(pool_size, 2) workers, whatever
\* pool_size Server::new was called with, 0 and 1 included: the size kept is
\* the larger of the argument and 2, and once run has created the pool its
\* worker threads are exactly that many, numbered from 0.
C20_PoolAtLeastTwo ==
    /\ pool_size >= 2
    /\ pool_size >= pool_arg
    /\ pool_size \in {pool_arg, 2}
    /\ PoolCreated =>
         /\ Cardinality(Workers) = pool_size
         /\ Workers = 0..(pool_size - 1)
         /\ DOMAIN wjob = Workers

\* Server::new(addr, 0) : run has created a pool of two workers, and one of
\* them is executing a job
C20_Witness ==
    /\ pool_arg = 0
    /\ PoolCreated
    /\ Cardinality(Workers) = 2
    /\ \E w \in Workers : wstate[w] = "run"

====
